---- MODULE Spec2Model ----
(***************************************************************************)
(* rccheck: a public-key-pinned certificate verifier (src/rccheck/src/     *)
(* lib.rs).  Psk wraps one SubjectPublicKeyInfo; it serializes to the raw  *)
(* DER bytes of that structure and implements rustls' ClientCertVerifier   *)
(* and ServerCertVerifier by (1) comparing the presented certificate's key *)
(* to the pinned one and (2) verifying the certificate against itself as   *)
(* the only trust anchor.                                                  *)
(*                                                                         *)
(* The external collaborators (x509-parser, webpki, serde) are modelled by *)
(* what they return at each call site.  A certificate blob is a record of  *)
(* the facts those libraries read off its bytes.                           *)
(***************************************************************************)
EXTENDS Integers, Sequences, FiniteSets, TLC

VARIABLES
    psk,        \* self.0: the pinned SubjectPublicKeyInfo of the verifier
    call,       \* arguments of the verification call of the current handshake
    outcome,    \* what that call returned, the collaborators it invoked, its trace log
    wire,       \* a byte string handed to Psk::deserialize or produced by serialize
    decoded,    \* the last deserialization: its input bytes and its result
    pc,         \* per handshake thread: position inside its verification call
    frame,      \* per handshake thread: the call's arguments and locals
    ret         \* per handshake thread: the value the call returned

vars == <<psk, call, outcome, wire, decoded, pc, frame, ret>>

----------------------------------------------------------------------------
(* Bounds of the model *)

MaxIntermediates == 1   \* longest intermediate chain supplied with a leaf
MaxTime == 2            \* latest clock reading (seconds after the epoch)
MaxWire == 6            \* longest byte string handed to deserialize

----------------------------------------------------------------------------
(* DER bytes of a SubjectPublicKeyInfo, lib.rs 23-39.                      *)
(* SubjectPublicKeyInfo ::= SEQUENCE { algorithm, subjectPublicKey BIT     *)
(* STRING }.  The encoding kept here is tag, length, contents with a       *)
(* one-byte AlgorithmIdentifier: <<SeqTag, 3+n, alg, BitStringTag, n,      *)
(* k1..kn>>.                                                               *)

SeqTag == 48
BitStringTag == 3

WireAlphabet == {0, 1, 3, 4, SeqTag}

RECURSIVE SeqsUpTo(_, _)
SeqsUpTo(S, n) ==
    IF n = 0 THEN {<<>>}
    ELSE LET shorter == SeqsUpTo(S, n - 1)
         IN  shorter \cup {Append(s, x) : s \in {q \in shorter : Len(q) = n - 1}, x \in S}

NoSpki == [algorithm |-> -1, subject_public_key |-> <<>>, raw |-> <<>>]

DerFail == [ok |-> FALSE, rest |-> <<>>, spki |-> NoSpki]

\* SubjectPublicKeyInfo::from_der(v): parses one structure from the front of v
\* and returns it with the unparsed remainder.
SpkiFromDer(v) ==
    IF Len(v) < 2 \/ v[1] # SeqTag THEN DerFail
    ELSE LET L == v[2] IN
         IF Len(v) < 2 + L \/ L < 3 THEN DerFail
         ELSE LET content == SubSeq(v, 3, 2 + L) IN
              IF content[2] # BitStringTag \/ content[3] # L - 3 THEN DerFail
              ELSE [ok   |-> TRUE,
                    rest |-> SubSeq(v, 3 + L, Len(v)),
                    spki |-> [algorithm          |-> content[1],
                              subject_public_key |-> SubSeq(content, 4, L),
                              raw                |-> SubSeq(v, 1, 2 + L)]]

\* Two pinned keys of different algorithms.
KeyA == SpkiFromDer(<<SeqTag, 4, 0, BitStringTag, 1, 0>>).spki
KeyR == SpkiFromDer(<<SeqTag, 4, 1, BitStringTag, 1, 0>>).spki
Keys == {KeyA, KeyR}

----------------------------------------------------------------------------
(* Ser/de, lib.rs 47-89 *)

\* Psk::serialize: serializer.serialize_bytes(self.0.raw)
serialize(self) == self.raw

DeFail == [tag |-> "Err", value |-> NoSpki]

\* DerBytesVisitor::visit_borrowed_bytes / visit_borrowed_str:
\*   let (_, spki) = SubjectPublicKeyInfo::from_der(v).map_err(Error::custom)?;
\*   Ok(Psk(spki))
visit_borrowed_bytes(v) ==
    LET r == SpkiFromDer(v)
    IN  IF r.ok THEN [tag |-> "Ok", value |-> r.spki] ELSE DeFail

\* Psk::deserialize: deserializer.deserialize_bytes(DerBytesVisitor)
deserialize(v) == visit_borrowed_bytes(v)

----------------------------------------------------------------------------
(* rustls::Error values and results *)

NoError == [kind |-> "", cause |-> "", received |-> NoSpki, expected |-> NoSpki]

RustlsError(kind) == [NoError EXCEPT !.kind = kind]

Verified == [tag |-> "Ok", err |-> NoError]

Failed(e) == [tag |-> "Err", err |-> e]

\* webpki::Error, every variant (lib.rs 223: use webpki::Error::*)
WebpkiErrors ==
    {"BadDer", "BadDerTime", "CaUsedAsEndEntity", "CertExpired",
     "CertNotValidForName", "CertNotValidYet", "EndEntityUsedAsCa",
     "ExtensionValueInvalid", "InvalidCertValidity",
     "InvalidSignatureForPublicKey", "NameConstraintViolation",
     "PathLenConstraintViolated", "SignatureAlgorithmMismatch",
     "RequiredEkuNotFound", "UnknownIssuer", "UnsupportedCertVersion",
     "MissingOrMalformedExtensions", "UnsupportedCriticalExtension",
     "UnsupportedSignatureAlgorithmForPublicKey",
     "UnsupportedSignatureAlgorithm"}

\* the two signature rows of the table exchanged
pki_error_SwappedSignature(error) ==
    CASE error \in {"BadDer", "BadDerTime"} ->
            RustlsError("InvalidCertificateEncoding")
      [] error = "InvalidSignatureForPublicKey" ->
            RustlsError("InvalidCertificateSignatureType")
      [] error \in {"UnsupportedSignatureAlgorithm",
                    "UnsupportedSignatureAlgorithmForPublicKey"} ->
            RustlsError("InvalidCertificateSignature")
      [] OTHER ->
            [NoError EXCEPT !.kind = "InvalidCertificateData", !.cause = error]

\* fn pki_error(error: webpki::Error) -> rustls::Error
pki_error(error) ==
    CASE error \in {"BadDer", "BadDerTime"} ->
            RustlsError("InvalidCertificateEncoding")
      [] error = "InvalidSignatureForPublicKey" ->
            RustlsError("InvalidCertificateSignature")
      [] error \in {"UnsupportedSignatureAlgorithm",
                    "UnsupportedSignatureAlgorithmForPublicKey"} ->
            RustlsError("InvalidCertificateSignatureType")
      [] OTHER ->
            [NoError EXCEPT !.kind = "InvalidCertificateData", !.cause = error]

----------------------------------------------------------------------------
(* Certificates as the collaborators see them.  A rustls::Certificate is   *)
(* a byte string; the record keeps what each library reads off it:         *)
(*   x509     X509Certificate::from_der accepts the bytes                  *)
(*   spki     the subject public key x509-parser extracts                  *)
(*   ee       webpki::EndEntityCert::try_from: "Ok" or the webpki error    *)
(*   anchor   webpki::TrustAnchor::try_from_cert_der: "Ok" or the error    *)
(*   notBefore, notAfter   validity window, seconds after the epoch        *)
(*   eku      extended key usage: "any", "clientAuth" or "serverAuth"      *)
(*   sigalg, sigok   signature algorithm; signature verifies under spki    *)
(*   fault    any other defect path validation reports, or "Ok"            *)
(*   names    DNS names of the subjectAltName                              *)

CertGood ==
    [x509 |-> TRUE, spki |-> KeyA, ee |-> "Ok", anchor |-> "Ok",
     notBefore |-> 1, notAfter |-> 1, eku |-> "any",
     sigalg |-> "ED25519", sigok |-> TRUE, fault |-> "Ok",
     names |-> {"example.com"}]

\* a validly self-signed certificate of another key
CertOtherKey == [CertGood EXCEPT !.spki = KeyR, !.sigalg = "ECDSA_P256_SHA256"]
\* not DER at all
CertGarbage == [CertGood EXCEPT !.x509 = FALSE, !.ee = "BadDer", !.anchor = "BadDer"]
\* a certificate followed by trailing bytes: x509-parser returns the remainder,
\* webpki requires the input to be consumed
CertTrailing == [CertGood EXCEPT !.ee = "BadDer", !.anchor = "BadDer"]
\* an X.509 v1 certificate: webpki end-entity certificates must be v3
CertV1 == [CertGood EXCEPT !.ee = "UnsupportedCertVersion"]
\* an unknown critical extension
CertCritExt ==
    [CertGood EXCEPT !.ee = "UnsupportedCriticalExtension",
                     !.anchor = "UnsupportedCriticalExtension"]
\* accepted as end entity, refused as trust anchor
CertAnchorBad == [CertGood EXCEPT !.anchor = "BadDer"]
\* self-signed with RSA-PKCS1-SHA256 over an RSA key
CertRsa == [CertGood EXCEPT !.spki = KeyR, !.sigalg = "RSA_PKCS1_2048_8192_SHA256"]
\* one byte of the signature flipped
CertBadSig == [CertGood EXCEPT !.sigok = FALSE]
CertClientOnly == [CertGood EXCEPT !.eku = "clientAuth"]
CertServerOnly == [CertGood EXCEPT !.eku = "serverAuth"]

\* one certificate per error path validation can report
CertFault(e) == [CertGood EXCEPT !.fault = e]

Certs ==
    {CertGood, CertOtherKey, CertGarbage, CertTrailing, CertV1, CertCritExt,
     CertAnchorBad, CertRsa, CertBadSig, CertClientOnly, CertServerOnly}
    \cup {CertFault(e) : e \in WebpkiErrors}

\* intermediates: a certificate carrying the pinned key, and junk
IntermediateCerts == {CertGood, CertGarbage}
Intermediates == SeqsUpTo(IntermediateCerts, MaxIntermediates)

\* SystemTime: seconds relative to the UNIX epoch, negative before it
UnixEpoch == 0
Times == (UnixEpoch - 1) .. MaxTime

\* rustls::ServerName
DnsName(s) == [kind |-> "DnsName", name |-> s]
IpAddress(s) == [kind |-> "IpAddress", name |-> s]
NoName == [kind |-> "", name |-> ""]
\* A DnsName can only be built from a string rustls has validated, so every
\* DNS-form name a caller supplies is well formed.
ServerNames ==
    {DnsName("example.com"), DnsName("other.example.com"), IpAddress("192.0.2.1")}

SctLists == {<<>>, <<"sct">>}
OcspResponses == {<<>>, <<1>>}

----------------------------------------------------------------------------
(* Collaborators, at their call sites *)

\* X509Certificate::from_der(&end_entity.0[..]) and cert.1.public_key()
X509CertificateFromDer(der) ==
    [ok |-> der.x509, public_key |-> IF der.x509 THEN der.spki ELSE NoSpki]

\* webpki::EndEntityCert::try_from(end_entity.0.as_ref())
EndEntityCertTryFrom(der) ==
    [ok |-> der.ee = "Ok", error |-> der.ee, cert |-> [der |-> der]]

\* webpki::TrustAnchor::try_from_cert_der(end_entity.0.as_ref())
TrustAnchorTryFromCertDer(der) ==
    [ok |-> der.anchor = "Ok", error |-> der.anchor, anchor |-> [der |-> der]]

\* a time before the epoch is clamped to the epoch instead of refused
TimeTryFrom_NeverFails(now) ==
    [ok |-> TRUE, time |-> IF now < UnixEpoch THEN UnixEpoch ELSE now]

\* webpki::Time::try_from(now): the duration since UNIX_EPOCH, an error before it
TimeTryFrom(now) ==
    IF now < UnixEpoch THEN [ok |-> FALSE, time |-> UnixEpoch]
    ELSE [ok |-> TRUE, time |-> now]

\* static SUPPORTED_SIG_ALGS
SUPPORTED_SIG_ALGS == {"ECDSA_P256_SHA256", "ED25519"}

\* webpki path validation of cert for one usage: "Ok" or a webpki::Error
VerifyChain(usage, cert, supported_sig_algs, trustroots, chain, time) ==
    LET der == cert.der IN
    CASE time < der.notBefore -> "CertNotValidYet"
      [] time > der.notAfter -> "CertExpired"
      [] der.eku \notin {"any", usage} -> "RequiredEkuNotFound"
      [] der.fault # "Ok" -> der.fault
      [] \A i \in 1..Len(trustroots) : trustroots[i].der # der -> "UnknownIssuer"
      [] der.sigalg \notin supported_sig_algs -> "UnsupportedSignatureAlgorithm"
      [] ~der.sigok -> "InvalidSignatureForPublicKey"
      [] OTHER -> "Ok"

\* cert.verify_is_valid_tls_client_cert(SUPPORTED_SIG_ALGS, &TlsClientTrustAnchors(..), &chain, now)
verify_is_valid_tls_client_cert(cert, supported_sig_algs, trustroots, chain, time) ==
    VerifyChain("clientAuth", cert, supported_sig_algs, trustroots, chain, time)

\* cert.verify_is_valid_tls_server_cert(SUPPORTED_SIG_ALGS, &TlsServerTrustAnchors(..), &chain, webpki_now)
verify_is_valid_tls_server_cert(cert, supported_sig_algs, trustroots, chain, time) ==
    VerifyChain("serverAuth", cert, supported_sig_algs, trustroots, chain, time)

\* names webpki::DnsNameRef::try_from_ascii_str accepts
WellFormedDnsNames == {"example.com", "other.example.com"}

\* webpki::DnsNameRef::try_from_ascii_str(dns_name.as_ref())
DnsNameRefTryFromAsciiStr(s) == [ok |-> s \in WellFormedDnsNames, name |-> s]

\* cert.verify_is_valid_for_dns_name(dns_nameref)
verify_is_valid_for_dns_name(cert, dns_nameref) ==
    IF dns_nameref \in cert.der.names THEN "Ok" ELSE "CertNotValidForName"

----------------------------------------------------------------------------
(* The verifier, lib.rs 97-220 *)

KeyMismatch(spki, self) ==
    [NoError EXCEPT !.kind = "InvalidCertificateData",
                    !.cause = "received instead of expected",
                    !.received = spki, !.expected = self]

\* the comparison with the pinned key is left out
check_expected_key_Skipped(self, spki) == Verified

\* if spki != self.0 { return Err(InvalidCertificateData(..received.. expected..)) }
check_expected_key(self, spki) ==
    IF spki # self THEN Failed(KeyMismatch(spki, self)) ELSE Verified

NoPrepared(e) ==
    [ok |-> FALSE, err |-> e, cert |-> [der |-> CertGarbage],
     chain |-> <<>>, trustroots |-> <<>>]

\* the trust anchor is taken from the first intermediate when there is one
prepare_for_self_signed_RootFromChain(end_entity, intermediates) ==
    LET cert == EndEntityCertTryFrom(end_entity)
        src  == IF Len(intermediates) > 0 THEN intermediates[1] ELSE end_entity
        root == TrustAnchorTryFromCertDer(src)
    IN  IF ~cert.ok THEN NoPrepared(pki_error(cert.error))
        ELSE IF ~root.ok THEN NoPrepared(pki_error(root.error))
        ELSE [ok |-> TRUE, err |-> NoError, cert |-> cert.cert,
              chain |-> intermediates, trustroots |-> <<root.anchor>>]

\* the leaf is pushed in front of the intermediates ("EE cert must appear first")
prepare_for_self_signed_LeafInChain(end_entity, intermediates) ==
    LET cert == EndEntityCertTryFrom(end_entity)
        root == TrustAnchorTryFromCertDer(end_entity)
    IN  IF ~cert.ok THEN NoPrepared(pki_error(cert.error))
        ELSE IF ~root.ok THEN NoPrepared(pki_error(root.error))
        ELSE [ok |-> TRUE, err |-> NoError, cert |-> cert.cert,
              chain |-> <<end_entity>> \o intermediates,
              trustroots |-> <<root.anchor>>]

\* fn prepare_for_self_signed(end_entity, intermediates)
\*   -> Result<(EndEntityCert, Vec<&[u8]>, Vec<TrustAnchor>), rustls::Error>
prepare_for_self_signed(end_entity, intermediates) ==
    LET cert == EndEntityCertTryFrom(end_entity)
        chain == [i \in 1..Len(intermediates) |-> intermediates[i]]
        root == TrustAnchorTryFromCertDer(end_entity)
    IN  IF ~cert.ok THEN NoPrepared(pki_error(cert.error))
        ELSE IF ~root.ok THEN NoPrepared(pki_error(root.error))
        ELSE [ok |-> TRUE, err |-> NoError, cert |-> cert.cert,
              chain |-> chain, trustroots |-> <<root.anchor>>]

Returned(result, calls, log) == [result |-> result, calls |-> calls, log |-> log]

\* ClientCertVerifier::verify_client_cert(&self, end_entity, intermediates, now)
verify_client_cert(self, end_entity, intermediates, now) ==
    LET cert == X509CertificateFromDer(end_entity)
        c1   == <<"X509Certificate::from_der">>
    IN
    IF ~cert.ok THEN Returned(Failed(RustlsError("InvalidCertificateEncoding")), c1, <<>>)
    ELSE
    LET keyed == check_expected_key(self, cert.public_key) IN
    IF keyed.tag = "Err" THEN Returned(keyed, c1, <<>>)
    ELSE
    LET prepared == prepare_for_self_signed(end_entity, intermediates)
        c2       == Append(c1, "prepare_for_self_signed")
    IN
    IF ~prepared.ok THEN Returned(Failed(prepared.err), c2, <<>>)
    ELSE
    LET webpki_now == TimeTryFrom(now)
        c3         == Append(c2, "Time::try_from")
    IN
    IF ~webpki_now.ok THEN Returned(Failed(RustlsError("FailedToGetCurrentTime")), c3, <<>>)
    ELSE
    LET v  == verify_is_valid_tls_client_cert(prepared.cert, SUPPORTED_SIG_ALGS,
                  prepared.trustroots, prepared.chain, webpki_now.time)
        c4 == Append(c3, "verify_is_valid_tls_client_cert")
    IN
    IF v # "Ok" THEN Returned(Failed(pki_error(v)), c4, <<>>)
    ELSE Returned(Verified, c4, <<>>)

\* an IP address is looked up like a host name instead of being refused
dns_nameref_of_AnyForm(server_name) ==
    LET r == DnsNameRefTryFromAsciiStr(server_name.name)
    IN  [ok |-> TRUE, called |-> TRUE, name |-> r.name]

\* match server_name { DnsName(n) => DnsNameRef::try_from_ascii_str(n)
\*     .map_err(|_| UnsupportedNameType)?, _ => return Err(UnsupportedNameType) }
dns_nameref_of(server_name) ==
    IF server_name.kind = "DnsName"
    THEN LET r == DnsNameRefTryFromAsciiStr(server_name.name)
         IN  [ok |-> r.ok, called |-> TRUE, name |-> r.name]
    ELSE [ok |-> FALSE, called |-> FALSE, name |-> ""]

\* scts.peekable().peek().is_none() => trace!(..); !ocsp_response.is_empty() => trace!(..)
\* the messages traced; nothing is returned
trace_unvalidated(scts, ocsp_response) ==
    (IF Len(scts) = 0 THEN <<"Met unvalidated certificate transparency data">> ELSE <<>>)
    \o (IF Len(ocsp_response) # 0 THEN <<"Unvalidated OCSP response">> ELSE <<>>)

\* the chain is verified before the claimed name is looked at
verify_server_cert_ChainFirst(self, end_entity, intermediates, server_name, scts, ocsp_response, now) ==
    LET cert == X509CertificateFromDer(end_entity)
        c1   == <<"X509Certificate::from_der">>
    IN
    IF ~cert.ok THEN Returned(Failed(RustlsError("InvalidCertificateEncoding")), c1, <<>>)
    ELSE
    LET keyed == check_expected_key(self, cert.public_key) IN
    IF keyed.tag = "Err" THEN Returned(keyed, c1, <<>>)
    ELSE
    LET prepared == prepare_for_self_signed(end_entity, intermediates)
        c2       == Append(c1, "prepare_for_self_signed")
    IN
    IF ~prepared.ok THEN Returned(Failed(prepared.err), c2, <<>>)
    ELSE
    LET webpki_now == TimeTryFrom(now)
        c3         == Append(c2, "Time::try_from")
    IN
    IF ~webpki_now.ok THEN Returned(Failed(RustlsError("FailedToGetCurrentTime")), c3, <<>>)
    ELSE
    LET v  == verify_is_valid_tls_server_cert(prepared.cert, SUPPORTED_SIG_ALGS,
                  prepared.trustroots, prepared.chain, webpki_now.time)
        c4 == Append(c3, "verify_is_valid_tls_server_cert")
    IN
    IF v # "Ok" THEN Returned(Failed(pki_error(v)), c4, <<>>)
    ELSE
    LET dns_nameref == dns_nameref_of(server_name)
        c5 == IF dns_nameref.called
              THEN Append(c4, "DnsNameRef::try_from_ascii_str") ELSE c4
    IN
    IF ~dns_nameref.ok THEN Returned(Failed(RustlsError("UnsupportedNameType")), c5, <<>>)
    ELSE
    LET log == trace_unvalidated(scts, ocsp_response)
        n   == verify_is_valid_for_dns_name(prepared.cert, dns_nameref.name)
        c6  == Append(c5, "verify_is_valid_for_dns_name")
    IN
    IF n # "Ok" THEN Returned(Failed(pki_error(n)), c6, log)
    ELSE Returned(Verified, c6, log)

\* ServerCertVerifier::verify_server_cert(&self, end_entity, intermediates,
\*     server_name, scts, ocsp_response, now)
verify_server_cert(self, end_entity, intermediates, server_name, scts, ocsp_response, now) ==
    LET cert == X509CertificateFromDer(end_entity)
        c1   == <<"X509Certificate::from_der">>
    IN
    IF ~cert.ok THEN Returned(Failed(RustlsError("InvalidCertificateEncoding")), c1, <<>>)
    ELSE
    LET keyed == check_expected_key(self, cert.public_key) IN
    IF keyed.tag = "Err" THEN Returned(keyed, c1, <<>>)
    ELSE
    LET prepared == prepare_for_self_signed(end_entity, intermediates)
        c2       == Append(c1, "prepare_for_self_signed")
    IN
    IF ~prepared.ok THEN Returned(Failed(prepared.err), c2, <<>>)
    ELSE
    LET webpki_now == TimeTryFrom(now)
        c3         == Append(c2, "Time::try_from")
    IN
    IF ~webpki_now.ok THEN Returned(Failed(RustlsError("FailedToGetCurrentTime")), c3, <<>>)
    ELSE
    LET dns_nameref == dns_nameref_of(server_name)
        c4 == IF dns_nameref.called
              THEN Append(c3, "DnsNameRef::try_from_ascii_str") ELSE c3
    IN
    IF ~dns_nameref.ok THEN Returned(Failed(RustlsError("UnsupportedNameType")), c4, <<>>)
    ELSE
    LET v  == verify_is_valid_tls_server_cert(prepared.cert, SUPPORTED_SIG_ALGS,
                  prepared.trustroots, prepared.chain, webpki_now.time)
        c5 == Append(c4, "verify_is_valid_tls_server_cert")
    IN
    IF v # "Ok" THEN Returned(Failed(pki_error(v)), c5, <<>>)
    ELSE
    LET log == trace_unvalidated(scts, ocsp_response)
        n   == verify_is_valid_for_dns_name(prepared.cert, dns_nameref.name)
        c6  == Append(c5, "verify_is_valid_for_dns_name")
    IN
    IF n # "Ok" THEN Returned(Failed(pki_error(n)), c6, log)
    ELSE Returned(Verified, c6, log)

----------------------------------------------------------------------------
(* One handshake at a time: the transport library calls one of the two     *)
(* verifiers with the peer's chain, then the handshake ends (aborted on an *)
(* error, continued on the assertion) and the call's data is dropped.      *)

NoCall ==
    [dir |-> "none", end_entity |-> CertGarbage, intermediates |-> <<>>,
     server_name |-> NoName, scts |-> <<>>, ocsp_response |-> <<>>,
     now |-> UnixEpoch]

NoOutcome == Returned(Failed(NoError), <<>>, <<>>)

NoDecoded == [input |-> <<>>, result |-> DeFail, done |-> FALSE]

Threads == {"t1", "t2"}

NoFrame == [call |-> NoCall, spki |-> NoSpki, prepared |-> NoPrepared(NoError),
            webpki_now |-> UnixEpoch, dns_nameref |-> "", log |-> <<>>]

NoHandshake ==
    /\ call = NoCall
    /\ outcome = NoOutcome
    /\ pc = [t \in Threads |-> "idle"]
    /\ frame = [t \in Threads |-> NoFrame]
    /\ ret = [t \in Threads |-> Failed(NoError)]

Init ==
    /\ psk \in Keys
    /\ NoHandshake
    /\ wire = <<>>
    /\ decoded = NoDecoded

VerifyClientCert ==
    /\ call.dir = "none"
    /\ \E end_entity \in Certs, intermediates \in Intermediates, now \in Times :
         /\ call' = [NoCall EXCEPT !.dir = "client", !.end_entity = end_entity,
                                   !.intermediates = intermediates, !.now = now]
         /\ outcome' = verify_client_cert(psk, end_entity, intermediates, now)
    /\ UNCHANGED <<psk, wire, decoded, pc, frame, ret>>

VerifyServerCert ==
    /\ call.dir = "none"
    /\ \E end_entity \in Certs, intermediates \in Intermediates,
          server_name \in ServerNames, scts \in SctLists,
          ocsp_response \in OcspResponses, now \in Times :
         /\ call' = [dir |-> "server", end_entity |-> end_entity,
                     intermediates |-> intermediates, server_name |-> server_name,
                     scts |-> scts, ocsp_response |-> ocsp_response, now |-> now]
         /\ outcome' = verify_server_cert(psk, end_entity, intermediates,
                            server_name, scts, ocsp_response, now)
    /\ UNCHANGED <<psk, wire, decoded, pc, frame, ret>>

HandshakeEnds ==
    /\ call.dir # "none"
    /\ call' = NoCall
    /\ outcome' = NoOutcome
    /\ UNCHANGED <<psk, wire, decoded, pc, frame, ret>>

Next == VerifyClientCert \/ VerifyServerCert \/ HandshakeEnds

Spec == Init /\ [][Next]_vars

----------------------------------------------------------------------------
(* The descriptor at rest: bytes arrive from configuration, are            *)
(* deserialized into a descriptor, which a verifier is built around and    *)
(* which is serialized again.                                              *)

ByteStrings == SeqsUpTo(WireAlphabet, MaxWire)

InitSerde ==
    /\ psk = KeyA
    /\ NoHandshake
    /\ wire \in ByteStrings
    /\ decoded = NoDecoded

Serialize ==
    /\ wire' = serialize(psk)
    /\ UNCHANGED <<psk, call, outcome, decoded, pc, frame, ret>>

Deserialize ==
    /\ decoded' = [input |-> wire, result |-> deserialize(wire), done |-> TRUE]
    /\ UNCHANGED <<psk, call, outcome, wire, pc, frame, ret>>

\* Psk(spki): the deserialized descriptor becomes a verifier's pinned key
Install ==
    /\ decoded.done
    /\ decoded.result.tag = "Ok"
    /\ psk' = decoded.result.value
    /\ UNCHANGED <<call, outcome, wire, decoded, pc, frame, ret>>

NextSerde == Serialize \/ Deserialize \/ Install

SpecSerde == InitSerde /\ [][NextSerde]_vars

----------------------------------------------------------------------------
(* Concurrent handshakes sharing one verifier (&self): each thread runs    *)
(* its call statement by statement; the only data they share is psk.       *)

ConcCerts == {CertGood, CertOtherKey, CertBadSig, CertV1}
ConcTimes == {UnixEpoch - 1, CertGood.notBefore}

ConcCalls ==
    {[NoCall EXCEPT !.dir = "client", !.end_entity = e, !.now = n] :
        e \in ConcCerts, n \in ConcTimes}
    \cup
    {[dir |-> "server", end_entity |-> e, intermediates |-> <<>>,
      server_name |-> s, scts |-> c, ocsp_response |-> o, now |-> n] :
        e \in ConcCerts, s \in ServerNames, c \in SctLists,
        o \in OcspResponses, n \in ConcTimes}

Goto(t, label) == pc' = [pc EXCEPT ![t] = label]

Returns(t, result) ==
    /\ pc' = [pc EXCEPT ![t] = "done"]
    /\ ret' = [ret EXCEPT ![t] = result]

\* the transport library enters verify_client_cert or verify_server_cert
Enter(t) ==
    /\ pc[t] = "idle"
    /\ \E c \in ConcCalls : frame' = [frame EXCEPT ![t] = [NoFrame EXCEPT !.call = c]]
    /\ Goto(t, "parse")
    /\ UNCHANGED <<psk, call, outcome, wire, decoded, ret>>

\* let cert = X509Certificate::from_der(..).map_err(..)?; let spki = ..public_key().clone();
ParseEndEntity(t) ==
    /\ pc[t] = "parse"
    /\ LET cert == X509CertificateFromDer(frame[t].call.end_entity) IN
       IF ~cert.ok
       THEN /\ Returns(t, Failed(RustlsError("InvalidCertificateEncoding")))
            /\ UNCHANGED frame
       ELSE /\ frame' = [frame EXCEPT ![t].spki = cert.public_key]
            /\ Goto(t, "compare")
            /\ UNCHANGED ret
    /\ UNCHANGED <<psk, call, outcome, wire, decoded>>

\* the verifier re-pins itself to the key it has just refused
CompareKey_Repins(t) ==
    /\ pc[t] = "compare"
    /\ LET keyed == check_expected_key(psk, frame[t].spki) IN
       IF keyed.tag = "Err"
       THEN /\ Returns(t, keyed)
            /\ psk' = frame[t].spki
       ELSE /\ Goto(t, "prepare")
            /\ UNCHANGED <<ret, psk>>
    /\ UNCHANGED <<call, outcome, wire, decoded, frame>>

\* if spki != self.0 { return Err(..) }
CompareKey(t) ==
    /\ pc[t] = "compare"
    /\ LET keyed == check_expected_key(psk, frame[t].spki) IN
       IF keyed.tag = "Err"
       THEN Returns(t, keyed)
       ELSE Goto(t, "prepare") /\ UNCHANGED ret
    /\ UNCHANGED <<psk, call, outcome, wire, decoded, frame>>

\* let (cert, chain, trustroots) = prepare_for_self_signed(end_entity, intermediates)?;
Prepare(t) ==
    /\ pc[t] = "prepare"
    /\ LET prepared == prepare_for_self_signed(frame[t].call.end_entity,
                                               frame[t].call.intermediates) IN
       IF ~prepared.ok
       THEN /\ Returns(t, Failed(prepared.err))
            /\ UNCHANGED frame
       ELSE /\ frame' = [frame EXCEPT ![t].prepared = prepared]
            /\ Goto(t, "time")
            /\ UNCHANGED ret
    /\ UNCHANGED <<psk, call, outcome, wire, decoded>>

\* let now = webpki::Time::try_from(now).map_err(|_| FailedToGetCurrentTime)?;
ConvertTime(t) ==
    /\ pc[t] = "time"
    /\ LET webpki_now == TimeTryFrom(frame[t].call.now) IN
       IF ~webpki_now.ok
       THEN /\ Returns(t, Failed(RustlsError("FailedToGetCurrentTime")))
            /\ UNCHANGED frame
       ELSE /\ frame' = [frame EXCEPT ![t].webpki_now = webpki_now.time]
            /\ Goto(t, IF frame[t].call.dir = "client" THEN "chain" ELSE "name")
            /\ UNCHANGED ret
    /\ UNCHANGED <<psk, call, outcome, wire, decoded>>

\* let dns_nameref = match server_name { .. };
MatchServerName(t) ==
    /\ pc[t] = "name"
    /\ LET dns_nameref == dns_nameref_of(frame[t].call.server_name) IN
       IF ~dns_nameref.ok
       THEN /\ Returns(t, Failed(RustlsError("UnsupportedNameType")))
            /\ UNCHANGED frame
       ELSE /\ frame' = [frame EXCEPT ![t].dns_nameref = dns_nameref.name]
            /\ Goto(t, "chain")
            /\ UNCHANGED ret
    /\ UNCHANGED <<psk, call, outcome, wire, decoded>>

\* cert.verify_is_valid_tls_client_cert(..).map_err(pki_error).map(|_| assertion())
\* cert.verify_is_valid_tls_server_cert(..).map_err(pki_error).map(|_| cert)?
VerifyChainOfTrust(t) ==
    /\ pc[t] = "chain"
    /\ LET f == frame[t]
           v == IF f.call.dir = "client"
                THEN verify_is_valid_tls_client_cert(f.prepared.cert,
                        SUPPORTED_SIG_ALGS, f.prepared.trustroots,
                        f.prepared.chain, f.webpki_now)
                ELSE verify_is_valid_tls_server_cert(f.prepared.cert,
                        SUPPORTED_SIG_ALGS, f.prepared.trustroots,
                        f.prepared.chain, f.webpki_now)
       IN  IF v # "Ok" THEN Returns(t, Failed(pki_error(v)))
           ELSE IF f.call.dir = "client" THEN Returns(t, Verified)
           ELSE Goto(t, "trace") /\ UNCHANGED ret
    /\ UNCHANGED <<psk, call, outcome, wire, decoded, frame>>

\* a non-empty OCSP response is refused instead of traced
TraceUnvalidated_RefusesOcsp(t) ==
    /\ pc[t] = "trace"
    /\ frame' = [frame EXCEPT ![t].log =
                    trace_unvalidated(frame[t].call.scts, frame[t].call.ocsp_response)]
    /\ IF Len(frame[t].call.ocsp_response) # 0
       THEN Returns(t, Failed(RustlsError("InvalidCertificateData")))
       ELSE Goto(t, "bind") /\ UNCHANGED ret
    /\ UNCHANGED <<psk, call, outcome, wire, decoded>>

\* if peekable.peek().is_none() { trace!(..) }  if !ocsp_response.is_empty() { trace!(..) }
TraceUnvalidated(t) ==
    /\ pc[t] = "trace"
    /\ frame' = [frame EXCEPT ![t].log =
                    trace_unvalidated(frame[t].call.scts, frame[t].call.ocsp_response)]
    /\ Goto(t, "bind")
    /\ UNCHANGED <<psk, call, outcome, wire, decoded, ret>>

\* cert.verify_is_valid_for_dns_name(dns_nameref).map_err(pki_error).map(|_| assertion())
VerifyName(t) ==
    /\ pc[t] = "bind"
    /\ LET n == verify_is_valid_for_dns_name(frame[t].prepared.cert,
                                             frame[t].dns_nameref)
       IN  IF n # "Ok" THEN Returns(t, Failed(pki_error(n)))
           ELSE Returns(t, Verified)
    /\ UNCHANGED <<psk, call, outcome, wire, decoded, frame>>

\* the caller takes the result; the call's data is dropped
Leave(t) ==
    /\ pc[t] = "done"
    /\ pc' = [pc EXCEPT ![t] = "idle"]
    /\ frame' = [frame EXCEPT ![t] = NoFrame]
    /\ ret' = [ret EXCEPT ![t] = Failed(NoError)]
    /\ UNCHANGED <<psk, call, outcome, wire, decoded>>

NextConc ==
    \E t \in Threads :
        \/ Enter(t)
        \/ ParseEndEntity(t)
        \/ CompareKey(t)
        \/ Prepare(t)
        \/ ConvertTime(t)
        \/ MatchServerName(t)
        \/ VerifyChainOfTrust(t)
        \/ TraceUnvalidated(t)
        \/ VerifyName(t)
        \/ Leave(t)

SpecConc == Init /\ [][NextConc]_vars

----------------------------------------------------------------------------
(* Properties of the verification calls, checked under Spec *)

Done == call.dir # "none"

Parsed == X509CertificateFromDer(call.end_entity)

KeyMatches == Parsed.ok /\ Parsed.public_key = psk

\* the end-entity bytes as the handle and as the only trust anchor
LeafHandle == [der |-> call.end_entity]

BuilderSucceeds ==
    /\ EndEntityCertTryFrom(call.end_entity).ok
    /\ TrustAnchorTryFromCertDer(call.end_entity).ok

\* the first failure cause of the trust builder
BuilderCause ==
    IF ~EndEntityCertTryFrom(call.end_entity).ok
    THEN EndEntityCertTryFrom(call.end_entity).error
    ELSE TrustAnchorTryFromCertDer(call.end_entity).error

\* a SystemTime converts unless it lies before the UNIX epoch
TimeConverts == call.now >= UnixEpoch

\* verdict of the external chain verification for the call's direction, with
\* the leaf as the only trust anchor
ChainVerdict ==
    VerifyChain(IF call.dir = "client" THEN "clientAuth" ELSE "serverAuth",
                LeafHandle, {"ECDSA_P256_SHA256", "ED25519"}, <<LeafHandle>>,
                call.intermediates, call.now)

NameIsDns == call.server_name.kind = "DnsName"

NameWellFormed == NameIsDns /\ call.server_name.name \in WellFormedDnsNames

Invoked(f) == \E i \in 1..Len(outcome.calls) : outcome.calls[i] = f

IsPrefix(s, t) == Len(s) <= Len(t) /\ \A i \in 1..Len(s) : s[i] = t[i]

Kind == outcome.result.err.kind

\* C1: in both directions, an end-entity certificate that parses but whose
\* subject public key differs from the pinned descriptor is refused with
\* InvalidCertificateData naming the received and the expected key, and
\* neither the trust builder nor chain verification has been invoked: the
\* only collaborator called is the certificate parser.
C1_KeyMismatchRefusedFirst ==
    (Done /\ Parsed.ok /\ Parsed.public_key # psk) =>
        /\ outcome.result.tag = "Err"
        /\ Kind = "InvalidCertificateData"
        /\ outcome.result.err.received = Parsed.public_key
        /\ outcome.result.err.expected = psk
        /\ outcome.calls = <<"X509Certificate::from_der">>

\* a validly self-signed certificate of another key, presented in time with
\* an intermediate that carries the pinned key, is refused
C1_Witness ==
    /\ call.dir = "server"
    /\ psk = KeyA
    /\ call.end_entity = CertOtherKey
    /\ call.intermediates = <<CertGood>>
    /\ call.server_name = DnsName("example.com")
    /\ ChainVerdict = "Ok"
    /\ Kind = "InvalidCertificateData"
    /\ outcome.result.err.received = KeyR

\* C2: verify_client_cert returns the assertion if and only if the leaf
\* parses, its key equals the descriptor, the trust builder succeeds, the
\* time converts and client-usage chain verification succeeds with the leaf
\* as the only trust anchor.
C2_ClientAcceptsIff ==
    call.dir = "client" =>
        /\ outcome.result.tag = "Ok" <=>
              /\ KeyMatches
              /\ BuilderSucceeds
              /\ TimeConverts
              /\ ChainVerdict = "Ok"
        /\ outcome.result.tag = "Ok" => outcome.result = Verified

C2_Witness ==
    /\ call.dir = "client"
    /\ call.end_entity = CertClientOnly
    /\ call.intermediates = <<CertGood>>
    /\ KeyMatches
    /\ ChainVerdict = "Ok"
    /\ outcome.result = Verified

\* C3: verify_server_cert on a validly self-signed leaf inside its validity
\* window whose key equals the descriptor: a DNS name the certificate is
\* valid for gives the assertion; a DNS name it is not valid for gives the
\* mapped name-binding error; a claimed name that is not of DNS form, or is
\* no well-formed DNS name, gives UnsupportedNameType.
C3_ServerNameBinding ==
    (/\ call.dir = "server"
     /\ KeyMatches
     /\ BuilderSucceeds
     /\ TimeConverts
     /\ ChainVerdict = "Ok") =>
        /\ (NameWellFormed /\ call.server_name.name \in call.end_entity.names)
              => outcome.result = Verified
        /\ (NameWellFormed /\ call.server_name.name \notin call.end_entity.names)
              => /\ outcome.result.tag = "Err"
                 /\ Kind = "InvalidCertificateData"
                 /\ outcome.result.err.cause = "CertNotValidForName"
        /\ ~NameWellFormed
              => /\ outcome.result.tag = "Err"
                 /\ Kind = "UnsupportedNameType"

C3_Witness ==
    /\ call.dir = "server"
    /\ call.end_entity = CertGood
    /\ KeyMatches
    /\ ChainVerdict = "Ok"
    /\ call.server_name = IpAddress("192.0.2.1")
    /\ Kind = "UnsupportedNameType"

\* The numbered steps of sections 4.4 and 4.5, each judged on its own: the
\* error step i would report for the current call, or Verified when it
\* passes (a step whose inputs an earlier step failed to produce passes).
\*   1 parse leaf   2 compare key   3 build trust inputs   4 convert time
\*   5 chain verification   6 name is of DNS form   7 DNS syntax
\*   8 name binding
StepResult(i) ==
    CASE i = 1 -> IF Parsed.ok THEN Verified
                  ELSE Failed(RustlsError("InvalidCertificateEncoding"))
      [] i = 2 -> IF Parsed.ok /\ Parsed.public_key # psk
                  THEN Failed(KeyMismatch(Parsed.public_key, psk)) ELSE Verified
      [] i = 3 -> IF BuilderSucceeds THEN Verified
                  ELSE Failed(pki_error(BuilderCause))
      [] i = 4 -> IF TimeConverts THEN Verified
                  ELSE Failed(RustlsError("FailedToGetCurrentTime"))
      [] i = 5 -> IF BuilderSucceeds /\ TimeConverts /\ ChainVerdict # "Ok"
                  THEN Failed(pki_error(ChainVerdict)) ELSE Verified
      [] i = 6 -> IF NameIsDns THEN Verified
                  ELSE Failed(RustlsError("UnsupportedNameType"))
      [] i = 7 -> IF NameIsDns /\ ~NameWellFormed
                  THEN Failed(RustlsError("UnsupportedNameType")) ELSE Verified
      [] i = 8 -> IF NameWellFormed
                     /\ call.server_name.name \notin call.end_entity.names
                  THEN Failed(pki_error("CertNotValidForName")) ELSE Verified

RECURSIVE FirstFailure(_, _)
FirstFailure(order, k) ==
    IF k > Len(order) THEN Verified
    ELSE IF StepResult(order[k]).tag = "Err" THEN StepResult(order[k])
    ELSE FirstFailure(order, k + 1)

\* C7 as stated: verify_server_cert reports the earliest failing step in the
\* order parse, key, trust inputs, time, chain verification, DNS form, DNS
\* syntax, name binding.
C7_AsStated ==
    call.dir = "server" =>
        outcome.result = FirstFailure(<<1, 2, 3, 4, 5, 6, 7, 8>>, 1)

ServerCallOrder ==
    <<"X509Certificate::from_der", "prepare_for_self_signed", "Time::try_from",
      "DnsNameRef::try_from_ascii_str", "verify_is_valid_tls_server_cert",
      "verify_is_valid_for_dns_name">>

\* C7, amended: verify_server_cert reports the earliest failing step in the
\* order parse, key, trust inputs, time, DNS form, DNS syntax, chain
\* verification, name binding; its collaborators are invoked in that order,
\* up to the failing step, and chain verification is not invoked for a name
\* that is refused.
C7_ServerOrder ==
    call.dir = "server" =>
        /\ outcome.result = FirstFailure(<<1, 2, 3, 4, 6, 7, 5, 8>>, 1)
        /\ IsPrefix(outcome.calls, ServerCallOrder)
        /\ ~NameWellFormed => ~Invoked("verify_is_valid_tls_server_cert")

\* the chain does not verify and the claimed name is an IP address
C7_Witness ==
    /\ call.dir = "server"
    /\ KeyMatches
    /\ call.end_entity = CertBadSig
    /\ ChainVerdict = "InvalidSignatureForPublicKey"
    /\ call.server_name = IpAddress("192.0.2.1")
    /\ Kind = "UnsupportedNameType"
    /\ ~Invoked("verify_is_valid_tls_server_cert")

ClientCallOrder ==
    <<"X509Certificate::from_der", "prepare_for_self_signed", "Time::try_from",
      "verify_is_valid_tls_client_cert">>

\* C8: verify_client_cert reports the earliest failing step in the order
\* parse (InvalidCertificateEncoding), key (InvalidCertificateData), trust
\* inputs, time (FailedToGetCurrentTime), chain verification (mapped error),
\* invoking its collaborators in that order up to the failing step; a time
\* that does not convert gives FailedToGetCurrentTime once the earlier steps
\* pass, and chain verification is then not invoked.
C8_ClientOrder ==
    call.dir = "client" =>
        /\ outcome.result = FirstFailure(<<1, 2, 3, 4, 5>>, 1)
        /\ IsPrefix(outcome.calls, ClientCallOrder)
        /\ (~Parsed.ok) => Kind = "InvalidCertificateEncoding"
        /\ (Parsed.ok /\ Parsed.public_key # psk) => Kind = "InvalidCertificateData"
        /\ (KeyMatches /\ BuilderSucceeds /\ ~TimeConverts) =>
              /\ outcome.result = Failed(RustlsError("FailedToGetCurrentTime"))
              /\ ~Invoked("verify_is_valid_tls_client_cert")

\* a certificate that chain verification would refuse, at a time before the epoch
C8_Witness ==
    /\ call.dir = "client"
    /\ KeyMatches
    /\ call.end_entity = CertFault("CertExpired")
    /\ call.now < UnixEpoch
    /\ Kind = "FailedToGetCurrentTime"
    /\ outcome.calls = <<"X509Certificate::from_der", "prepare_for_self_signed",
                         "Time::try_from">>

\* the trust builder ran in the current call
BuilderRan == Done /\ Invoked("prepare_for_self_signed")

Built == prepare_for_self_signed(call.end_entity, call.intermediates)

BuiltShape ==
    Built.ok =>
        /\ Len(Built.trustroots) = 1
        /\ Built.trustroots[1] = [der |-> call.end_entity]
        /\ Built.cert = [der |-> call.end_entity]
        /\ Built.chain = call.intermediates

TableKind(e) ==
    CASE e \in {"BadDer", "BadDerTime"} -> "InvalidCertificateEncoding"
      [] e = "InvalidSignatureForPublicKey" -> "InvalidCertificateSignature"
      [] e \in {"UnsupportedSignatureAlgorithm",
                "UnsupportedSignatureAlgorithmForPublicKey"}
            -> "InvalidCertificateSignatureType"
      [] OTHER -> "InvalidCertificateData"

ChainRan ==
    Done /\ (\/ Invoked("verify_is_valid_tls_client_cert")
             \/ Invoked("verify_is_valid_tls_server_cert"))

\* whatever chain verification reports is returned as the table maps it
TableHolds ==
    (ChainRan /\ ChainVerdict # "Ok") =>
        /\ outcome.result.tag = "Err"
        /\ Kind = TableKind(ChainVerdict)
        /\ Kind = "InvalidCertificateData" => outcome.result.err.cause = ChainVerdict

SignedOutsideAllowlist ==
    Done /\ KeyMatches /\ call.end_entity.sigalg \notin {"ECDSA_P256_SHA256", "ED25519"}

\* C10 as stated: the mapper agrees with the table on every code, and a
\* certificate whose key matches the descriptor but which is signed with
\* an algorithm outside the allowlist is refused with
\* InvalidCertificateSignatureType.
C10_AsStated ==
    /\ TableHolds
    /\ SignedOutsideAllowlist =>
          outcome.result = Failed(RustlsError("InvalidCertificateSignatureType"))

\* C10, amended: the mapper agrees with the table on every code; a
\* certificate whose key matches the descriptor but which is signed with an
\* algorithm outside the allowlist is never accepted, and it is refused with
\* InvalidCertificateSignatureType when chain verification is reached and
\* reports the unsupported algorithm (an earlier step, or an earlier finding
\* of chain verification such as expiry, is reported in its place).
C10_MapperTable ==
    /\ TableHolds
    /\ SignedOutsideAllowlist =>
          /\ outcome.result.tag = "Err"
          /\ (ChainRan /\ ChainVerdict = "UnsupportedSignatureAlgorithm")
                => outcome.result = Failed(RustlsError("InvalidCertificateSignatureType"))

\* an RSA-signed leaf carrying the pinned key, inside its validity window
C10_Witness ==
    /\ SignedOutsideAllowlist
    /\ ChainRan
    /\ call.end_entity = CertRsa
    /\ ChainVerdict = "UnsupportedSignatureAlgorithm"
    /\ Kind = "InvalidCertificateSignatureType"

----------------------------------------------------------------------------
(* Properties of the serialized descriptor, checked under SpecSerde *)

\* b is, from its first byte to its last, the DER encoding of one
\* SubjectPublicKeyInfo
IsSpkiDer(b) ==
    /\ Len(b) >= 5
    /\ b[1] = SeqTag
    /\ b[2] = Len(b) - 2
    /\ b[4] = BitStringTag
    /\ b[5] = Len(b) - 5

\* serialize then deserialize gives back an equal descriptor
RoundTrips ==
    (decoded.done /\ decoded.input = serialize(psk)) =>
        decoded.result = [tag |-> "Ok", value |-> psk]

\* bytes that are no well-formed SubjectPublicKeyInfo give an error
MalformedRefused ==
    (decoded.done /\ ~IsSpkiDer(decoded.input)) => decoded.result.tag = "Err"

\* C5: a descriptor serializes to the raw DER bytes of its
\* SubjectPublicKeyInfo, and deserializing those bytes gives back an equal
\* descriptor; deserializing bytes that are not a well-formed
\* SubjectPublicKeyInfo returns an error and never a descriptor.
C5_AsStated == RoundTrips /\ MalformedRefused

\* The half of C5 the code keeps: the round trip, and the refusal of bytes
\* that do not begin with a well-formed SubjectPublicKeyInfo.
C5_RoundTripOnly ==
    /\ RoundTrips
    /\ (decoded.done /\ decoded.result.tag = "Ok") =>
          /\ IsSpkiDer(serialize(decoded.result.value))
          /\ IsPrefix(serialize(decoded.result.value), decoded.input)

\* a descriptor deserialized from bytes with a trailing byte
C5_TrailingAccepted ==
    /\ decoded.done
    /\ decoded.result.tag = "Ok"
    /\ Len(decoded.input) > Len(serialize(decoded.result.value))

----------------------------------------------------------------------------
(* Properties of concurrent calls, checked under SpecConc *)

\* two server calls that agree on everything but the SCT list and the OCSP
\* response
SameButDiagnostics(c, d) ==
    /\ c.dir = "server"
    /\ d.dir = "server"
    /\ c.end_entity = d.end_entity
    /\ c.intermediates = d.intermediates
    /\ c.server_name = d.server_name
    /\ c.now = d.now

\* C4: two verify_server_cert calls on the same descriptor that agree on the
\* leaf, the intermediates, the claimed name and the time return the same
\* result (the assertion, or the same error) whatever their SCT lists and
\* OCSP responses hold; so a call with either input present returns what the
\* call with both absent returns, and neither input causes an error.
C4_DiagnosticsIgnored ==
    \A t \in Threads, u \in Threads :
        (/\ pc[t] = "done"
         /\ pc[u] = "done"
         /\ SameButDiagnostics(frame[t].call, frame[u].call)) =>
            ret[t] = ret[u]

\* one call with SCTs and an OCSP response, one with neither, both verified
C4_Witness ==
    /\ pc["t1"] = "done"
    /\ pc["t2"] = "done"
    /\ SameButDiagnostics(frame["t1"].call, frame["t2"].call)
    /\ frame["t1"].call.scts = <<"sct">>
    /\ frame["t1"].call.ocsp_response = <<1>>
    /\ frame["t2"].call.scts = <<>>
    /\ frame["t2"].call.ocsp_response = <<>>
    /\ frame["t1"].log # frame["t2"].log
    /\ ret["t1"] = Verified
    /\ ret["t2"] = Verified

\* what the call c returns when it runs alone on the descriptor self
Alone(self, c) ==
    IF c.dir = "client"
    THEN verify_client_cert(self, c.end_entity, c.intermediates, c.now)
    ELSE verify_server_cert(self, c.end_entity, c.intermediates, c.server_name,
                            c.scts, c.ocsp_response, c.now)

EachAsAlone ==
    \A t \in Threads :
        pc[t] = "done" =>
            /\ ret[t] = Alone(psk, frame[t].call).result
            /\ frame[t].log = Alone(psk, frame[t].call).log

\* C6: under every interleaving of the statements of concurrent
\* verify_client_cert and verify_server_cert calls on one verifier, no step
\* modifies the descriptor, and every call returns (and traces) what the same
\* call returns when run alone on its own arguments.
C6_CallsIndependent == [][psk' = psk]_vars /\ []EachAsAlone

\* one call accepted while the other has failed on the key
C6_Witness ==
    /\ pc["t1"] = "done"
    /\ pc["t2"] = "done"
    /\ frame["t1"].call.dir = "client"
    /\ frame["t2"].call.dir = "server"
    /\ ret["t1"] = Verified
    /\ ret["t2"].err.kind = "InvalidCertificateData"
    /\ ret["t2"].err.expected = psk

====
